---- MODULE Spec2Model ----
(***************************************************************************)
(* SpaceCar: the long-running-pipeline client (ApiEngine), the scene       *)
(* selector (choose_best_scene) and the per-scene tile fetch / merge /     *)
(* save pipeline (SpaceCar.process_scene, process_scenes).                 *)
(*                                                                         *)
(* Three specifications share this module:                                 *)
(*   SpecGetData  one ApiEngine.get_data call against a server whose       *)
(*                answers are chosen freely at every round trip;           *)
(*   SpecChoose   choose_best_scene applied to every bounded scene list;   *)
(*   Spec         process_scenes over a list of scenes, its process_scene  *)
(*                tasks, their get_data calls and the worker-pool saves    *)
(*                interleaved.                                             *)
(*                                                                         *)
(* Python values that may be None are tagged: None is <<>>, a value v is   *)
(* <<v>>.  A JSON object is a record whose DOMAIN is the set of its keys.  *)
(***************************************************************************)
EXTENDS Integers, Sequences, FiniteSets, TLC

VARIABLES
    call,       \* SpecGetData: the frame of the one get_data call
    scenes,     \* SpecChoose: the scene list handed to choose_best_scene
    chosen,     \* SpecChoose: outcome of SpaceCar.choose_best_scene
    chosen_cv,  \* SpecChoose: outcome of CarVisualizer.choose_best_scene
    calls,      \* Spec: calls[s][layer], the get_data frames of scene s
    tasks,      \* Spec: tasks[s], the process_scene task of scene s
    dirs,       \* Spec: the directories on the drive
    files,      \* Spec: the files on the drive, path -> content
    ps          \* Spec: outcome of process_scenes

gd_vars == <<call>>
cbs_vars == <<chosen, chosen_cv>>
ps_vars == <<calls, tasks, dirs, files, ps>>
vars == <<call, scenes, chosen, chosen_cv, calls, tasks, dirs, files, ps>>

----------------------------------------------------------------------------
(* Python values *)

None == <<>>
Some(v) == <<v>>

\* dict.get(key) / dict.get(key, None)
Get(d, k) == IF k \in DOMAIN d THEN Some(d[k]) ELSE None

\* dict.get(key, default)
GetDefault(d, k, default) == IF k \in DOMAIN d THEN d[k] ELSE default

Return(v) == [kind |-> "return", value |-> v]
Raise(exc, args) == [kind |-> "raise", exc |-> exc, args |-> args]
Running == [kind |-> "running"]

----------------------------------------------------------------------------
(* ApiEngine *)

JWT_TOKEN == "token"

headers == [Authorization |-> <<"Bearer", JWT_TOKEN>>]

tasking_api_address == <<"https://spaceknow-tasking.appspot.com/tasking/get-status">>

\* cap on the status polls of one call that the model follows
MaxPolls == 3

\* nextTry values the server hands out
Hints == {2, 5}

\* the default of status_response.get('nextTry', 100)
DefaultNextTry == 100

\* the POST that _make_request sends
Post(address, payload) ==
    [method |-> "POST", address |-> address, headers |-> headers, json |-> payload]

\* _make_request without the INVALID-AUTHORIZATION-HEADER branch
make_request_no_auth(resp) ==
    IF resp.status # 200
    THEN Raise("Exception", <<Get(resp.json, "error"), Get(resp.json, "errorMessage")>>)
    ELSE Return(resp.json)

\* what _make_request makes of the response resp
make_request(resp) ==
    IF resp.status # 200
    THEN LET error == Get(resp.json, "error") IN
         IF error = Some("INVALID-AUTHORIZATION-HEADER")
         THEN Raise("AuthenticationError", <<"Invalid token used">>)
         ELSE Raise("Exception", <<error, Get(resp.json, "errorMessage")>>)
    ELSE Return(resp.json)

initiate_request(api_address, initiate_payload) ==
    Post(<<api_address, "/initiate">>, initiate_payload)

retrieve_request(api_address, pipeline_id) ==
    Post(<<api_address, "/retrieve">>, [pipelineId |-> pipeline_id])

get_status_request(pipeline_id) ==
    Post(tasking_api_address, [pipelineId |-> pipeline_id])

\* asyncio.sleep(delay) evaluates delay <= 0 first: None is a TypeError
sleep_raises(delay) == delay = None

\* the frame of a get_data call that has not yet sent anything
NewCall(api_address, initiate_payload) ==
    [pc |-> "initiate",
     api_address |-> api_address,
     initiate_payload |-> initiate_payload,
     next_try |-> None,
     pipeline_id |-> None,
     sent |-> <<>>,          \* requests sent, in order
     resps |-> <<>>,         \* responses received, in order
     waits |-> <<>>,         \* arguments of the completed asyncio.sleep calls
     outcome |-> Running]

\* the initiate round trip followed at once by the retrieve, the loop of
\* lines 62-70 left out
get_data_initiate_skip_poll(c, resp) ==
    LET r == make_request(resp)
        c1 == [c EXCEPT !.sent = Append(@, initiate_request(c.api_address, c.initiate_payload)),
                        !.resps = Append(@, resp)]
    IN IF r.kind = "raise"
       THEN [c1 EXCEPT !.pc = "raised", !.outcome = r]
       ELSE [c1 EXCEPT !.pc = "retrieve",
                       !.next_try = Get(r.value, "nextTry"),
                       !.pipeline_id = Get(r.value, "pipelineId")]

\* get_data, line 58-59: initiate round trip answered by resp
get_data_initiate(c, resp) ==
    LET r == make_request(resp)
        c1 == [c EXCEPT !.sent = Append(@, initiate_request(c.api_address, c.initiate_payload)),
                        !.resps = Append(@, resp)]
    IN IF r.kind = "raise"
       THEN [c1 EXCEPT !.pc = "raised", !.outcome = r]
       ELSE [c1 EXCEPT !.pc = "sleep",
                       !.next_try = Get(r.value, "nextTry"),
                       !.pipeline_id = Get(r.value, "pipelineId")]

\* get_data, line 63: await asyncio.sleep(next_try)
get_data_sleep(c) ==
    IF sleep_raises(c.next_try)
    THEN [c EXCEPT !.pc = "raised", !.outcome = Raise("TypeError", <<"sleep">>)]
    ELSE [c EXCEPT !.pc = "get_status", !.waits = Append(@, c.next_try[1])]

\* the status round trip with line 70 left out: next_try keeps its old value
get_data_get_status_stale(c, resp) ==
    LET r == make_request(resp)
        c1 == [c EXCEPT !.sent = Append(@, get_status_request(c.pipeline_id)),
                        !.resps = Append(@, resp)]
    IN IF r.kind = "raise"
       THEN [c1 EXCEPT !.pc = "raised", !.outcome = r]
       ELSE LET status == GetDefault(r.value, "status", "") IN
            IF status = "RESOLVED"
            THEN [c1 EXCEPT !.pc = "retrieve"]
            ELSE IF status = "FAILED"
            THEN [c1 EXCEPT !.pc = "raised",
                            !.outcome = Raise("Exception",
                                <<<<"An error occurred during processing pipeline", c.pipeline_id>>>>)]
            ELSE [c1 EXCEPT !.pc = "sleep"]

\* the status round trip with lines 68-69 left out: FAILED keeps the loop going
get_data_get_status_no_failed(c, resp) ==
    LET r == make_request(resp)
        c1 == [c EXCEPT !.sent = Append(@, get_status_request(c.pipeline_id)),
                        !.resps = Append(@, resp)]
    IN IF r.kind = "raise"
       THEN [c1 EXCEPT !.pc = "raised", !.outcome = r]
       ELSE LET status == GetDefault(r.value, "status", "") IN
            IF status = "RESOLVED"
            THEN [c1 EXCEPT !.pc = "retrieve"]
            ELSE [c1 EXCEPT !.pc = "sleep",
                            !.next_try = Some(GetDefault(r.value, "nextTry", DefaultNextTry))]

\* the status round trip with an else branch that raises on every status other
\* than RESOLVED and PENDING
get_data_get_status_unknown_fails(c, resp) ==
    LET r == make_request(resp)
        c1 == [c EXCEPT !.sent = Append(@, get_status_request(c.pipeline_id)),
                        !.resps = Append(@, resp)]
    IN IF r.kind = "raise"
       THEN [c1 EXCEPT !.pc = "raised", !.outcome = r]
       ELSE LET status == GetDefault(r.value, "status", "") IN
            IF status = "RESOLVED"
            THEN [c1 EXCEPT !.pc = "retrieve"]
            ELSE IF status = "PENDING"
            THEN [c1 EXCEPT !.pc = "sleep",
                            !.next_try = Some(GetDefault(r.value, "nextTry", DefaultNextTry))]
            ELSE [c1 EXCEPT !.pc = "raised",
                            !.outcome = Raise("Exception",
                                <<<<"An error occurred during processing pipeline", c.pipeline_id>>>>)]

\* the status round trip of a client that gives up at its second unfinished poll
get_data_get_status_capped(c, resp) ==
    LET r == make_request(resp)
        c1 == [c EXCEPT !.sent = Append(@, get_status_request(c.pipeline_id)),
                        !.resps = Append(@, resp)]
    IN IF r.kind = "raise"
       THEN [c1 EXCEPT !.pc = "raised", !.outcome = r]
       ELSE LET status == GetDefault(r.value, "status", "") IN
            IF status = "RESOLVED"
            THEN [c1 EXCEPT !.pc = "retrieve"]
            ELSE IF status = "FAILED" \/ Len(c.waits) >= 2
            THEN [c1 EXCEPT !.pc = "raised",
                            !.outcome = Raise("Exception",
                                <<<<"An error occurred during processing pipeline", c.pipeline_id>>>>)]
            ELSE [c1 EXCEPT !.pc = "sleep",
                            !.next_try = Some(GetDefault(r.value, "nextTry", DefaultNextTry))]

\* get_data, line 64-70: status round trip answered by resp
get_data_get_status(c, resp) ==
    LET r == make_request(resp)
        c1 == [c EXCEPT !.sent = Append(@, get_status_request(c.pipeline_id)),
                        !.resps = Append(@, resp)]
    IN IF r.kind = "raise"
       THEN [c1 EXCEPT !.pc = "raised", !.outcome = r]
       ELSE LET status == GetDefault(r.value, "status", "") IN
            IF status = "RESOLVED"
            THEN [c1 EXCEPT !.pc = "retrieve"]
            ELSE IF status = "FAILED"
            THEN [c1 EXCEPT !.pc = "raised",
                            !.outcome = Raise("Exception",
                                <<<<"An error occurred during processing pipeline", c.pipeline_id>>>>)]
            ELSE [c1 EXCEPT !.pc = "sleep",
                            !.next_try = Some(GetDefault(r.value, "nextTry", DefaultNextTry))]

\* the retrieve round trip of a client that sends the retrieve again after a
\* non-200 answer
get_data_retrieve_retry(c, resp) ==
    LET r == make_request(resp)
        c1 == [c EXCEPT !.sent = Append(@, retrieve_request(c.api_address, c.pipeline_id)),
                        !.resps = Append(@, resp)]
    IN IF r.kind = "raise"
       THEN [c1 EXCEPT !.pc = "retrieve"]
       ELSE [c1 EXCEPT !.pc = "returned", !.outcome = r]

\* get_data, line 72-74: retrieve round trip answered by resp
get_data_retrieve(c, resp) ==
    LET r == make_request(resp)
        c1 == [c EXCEPT !.sent = Append(@, retrieve_request(c.api_address, c.pipeline_id)),
                        !.resps = Append(@, resp)]
    IN IF r.kind = "raise"
       THEN [c1 EXCEPT !.pc = "raised", !.outcome = r]
       ELSE [c1 EXCEPT !.pc = "returned", !.outcome = r]

\* requests of a call by endpoint
IsInitiate(q) == Len(q.address) = 2 /\ q.address[2] = "/initiate"
IsRetrieve(q) == Len(q.address) = 2 /\ q.address[2] = "/retrieve"
IsStatusPoll(q) == q.address = tasking_api_address

Count(s, P(_)) == Cardinality({i \in DOMAIN s : P(s[i])})

Polls(c) == Count(c.sent, IsStatusPoll)
Retrieves(c) == Count(c.sent, IsRetrieve)
Initiates(c) == Count(c.sent, IsInitiate)

----------------------------------------------------------------------------
(* The remote service as one get_data call sees it *)

ErrorResponses ==
    { [status |-> 401, json |-> [error |-> "INVALID-AUTHORIZATION-HEADER",
                                 errorMessage |-> "bad token"]],
      [status |-> 500, json |-> [error |-> "INTERNAL-ERROR", errorMessage |-> "boom"]],
      [status |-> 500, json |-> [errorMessage |-> "boom"]] }

InitiateResponses ==
    { [status |-> 200, json |-> [pipelineId |-> "p1", nextTry |-> h]] : h \in Hints }
    \cup { [status |-> 200, json |-> [pipelineId |-> "p1"]] }
    \cup ErrorResponses

StatusResponses ==
    { [status |-> 200, json |-> [status |-> "PENDING", nextTry |-> h]] : h \in Hints }
    \cup { [status |-> 200, json |-> [status |-> "PENDING"]],
           [status |-> 200, json |-> [status |-> "PROCESSING", nextTry |-> 2]],
           [status |-> 200, json |-> [nextTry |-> 5]],
           [status |-> 200, json |-> [status |-> "RESOLVED"]],
           [status |-> 200, json |-> [status |-> "RESOLVED",
                                      error |-> "INVALID-AUTHORIZATION-HEADER"]],
           [status |-> 200, json |-> [status |-> "FAILED"]] }
    \cup ErrorResponses

RetrieveResponses ==
    { [status |-> 200, json |-> [results |-> "data"]] } \cup ErrorResponses

SearchApi == "https://spaceknow-imagery.appspot.com/imagery/search"

----------------------------------------------------------------------------
(* SpecGetData: one get_data call *)

GDInit ==
    /\ call = NewCall(SearchApi, [provider |-> "gbdx"])
    /\ scenes = <<>>
    /\ chosen = Running
    /\ chosen_cv = Running
    /\ calls = <<>>
    /\ tasks = <<>>
    /\ dirs = {}
    /\ files = <<>>
    /\ ps = Running

Initiate ==
    /\ call.pc = "initiate"
    /\ \E resp \in InitiateResponses : call' = get_data_initiate(call, resp)
    /\ UNCHANGED <<scenes, cbs_vars, ps_vars>>

Sleep ==
    /\ call.pc = "sleep"
    /\ call' = get_data_sleep(call)
    /\ UNCHANGED <<scenes, cbs_vars, ps_vars>>

GetStatus ==
    /\ call.pc = "get_status"
    /\ Polls(call) < MaxPolls
    /\ \E resp \in StatusResponses : call' = get_data_get_status(call, resp)
    /\ UNCHANGED <<scenes, cbs_vars, ps_vars>>

Retrieve ==
    /\ call.pc = "retrieve"
    /\ \E resp \in RetrieveResponses : call' = get_data_retrieve(call, resp)
    /\ UNCHANGED <<scenes, cbs_vars, ps_vars>>

GDNext == Initiate \/ Sleep \/ GetStatus \/ Retrieve

SpecGetData == GDInit /\ [][GDNext]_vars

\* the event loop resumes the one coroutine whenever its await completes, and
\* the server answers every request it receives
SpecGetDataFair == GDInit /\ [][GDNext]_vars /\ WF_vars(GDNext)

----------------------------------------------------------------------------
(* Claims about ApiEngine.get_data, checked under SpecGetData *)

StatusOf(r) == GetDefault(r.json, "status", "")
IsResolved(r) == r.status = 200 /\ StatusOf(r) = "RESOLVED"
IsFailed(r) == r.status = 200 /\ StatusOf(r) = "FAILED"
IsPending(r) == r.status = 200 /\ StatusOf(r) = "PENDING"
Hint(r) == Get(r.json, "nextTry")

Ended(c) == c.pc \in {"returned", "raised"}

\* the answers to the status polls of c: PENDING up to position n, then RESOLVED at n + 1
\* (position 1 of the logs is the initiate round trip)
PendingThenResolved(c, n) ==
    /\ Len(c.resps) >= n + 1
    /\ n >= 1
    /\ c.resps[1].status = 200
    /\ \A j \in 2..n : IsPending(c.resps[j])
    /\ IsResolved(c.resps[n + 1])

\* C1: when the initiate succeeds and the status endpoint answers k PENDING
\* responses and then RESOLVED, the finished call has sent the initiate, exactly
\* k+1 status polls and exactly one retrieve, in that order, and has slept k+1
\* times, each time for the nextTry hint of the response before it.
C1_PollsAndWaits ==
    \A n \in 1..(MaxPolls + 1) :
        (Ended(call) /\ PendingThenResolved(call, n)) =>
            /\ Len(call.sent) = n + 2
            /\ IsInitiate(call.sent[1])
            /\ \A j \in 2..(n + 1) : IsStatusPoll(call.sent[j])
            /\ IsRetrieve(call.sent[n + 2])
            /\ Polls(call) = n
            /\ Retrieves(call) = 1
            /\ Len(call.waits) = n
            /\ \A j \in 1..n : Hint(call.resps[j]) # None =>
                                  call.waits[j] = Hint(call.resps[j])[1]

\* C1 witness: the script [PENDING(2), PENDING(5), RESOLVED] has been played out
C1_Witness ==
    /\ call.pc = "returned"
    /\ PendingThenResolved(call, 3)
    /\ Hint(call.resps[2]) = Some(2)
    /\ Hint(call.resps[3]) = Some(5)
    /\ Polls(call) = 3
    /\ call.waits = <<Hint(call.resps[1])[1], 2, 5>>

\* C2: a FAILED status answer is the last thing the call hears: the call has
\* raised the processing error naming its pipeline, and no later request (poll
\* or retrieve) is in its log.
C2_FailedEndsCall ==
    \A i \in DOMAIN call.resps :
        (IsStatusPoll(call.sent[i]) /\ IsFailed(call.resps[i])) =>
            /\ i = Len(call.sent)
            /\ Retrieves(call) = 0
            /\ call.pc = "raised"
            /\ call.outcome.exc = "Exception"
            /\ call.outcome.args =
                  <<<<"An error occurred during processing pipeline", call.pipeline_id>>>>

\* C2 witness: FAILED arrives after a PENDING answer
C2_Witness ==
    /\ Len(call.resps) = 3
    /\ IsPending(call.resps[2])
    /\ IsFailed(call.resps[3])
    /\ call.pc = "raised"

\* C3: the last response of the call decides its error: non-200 with error code
\* INVALID-AUTHORIZATION-HEADER raises AuthenticationError, non-200 with any other
\* or no error code raises Exception(error, errorMessage), and a 200 response
\* raises neither.
C3_ErrorClassification ==
    \A i \in DOMAIN call.resps :
        LET r == call.resps[i] IN
        /\ r.status # 200 =>
             /\ i = Len(call.resps)
             /\ call.pc = "raised"
             /\ IF "error" \in DOMAIN r.json /\ r.json.error = "INVALID-AUTHORIZATION-HEADER"
                THEN call.outcome.exc = "AuthenticationError"
                ELSE /\ call.outcome.exc = "Exception"
                     /\ Len(call.outcome.args) = 2
                     /\ call.outcome.args[1] = Get(r.json, "error")
                     /\ call.outcome.args[2] = Get(r.json, "errorMessage")
        /\ (r.status = 200 /\ i = Len(call.resps) /\ call.outcome.kind = "raise") =>
             /\ call.outcome.exc # "AuthenticationError"
             /\ ~(call.outcome.exc = "Exception" /\ Len(call.outcome.args) = 2)

\* C3 witness: a 200 status answer that itself carries the error code
\* INVALID-AUTHORIZATION-HEADER raised nothing, and the retrieve answered 500
\* without an error code raised Exception(None, errorMessage)
C3_Witness ==
    /\ Len(call.resps) = 3
    /\ call.resps[2].status = 200
    /\ "error" \in DOMAIN call.resps[2].json
    /\ IsRetrieve(call.sent[3])
    /\ call.resps[3].status = 500
    /\ "error" \notin DOMAIN call.resps[3].json
    /\ call.outcome.kind = "raise"
    /\ call.outcome.exc = "Exception"
    /\ call.outcome.args = <<None, Some("boom")>>

\* C9 (as claimed): after a 200 initiate response with a pipelineId and no
\* nextTry the call does not end before it has polled the status endpoint.
C9_NoCrashWithoutNextTry ==
    (/\ Len(call.resps) >= 1
     /\ call.resps[1].status = 200
     /\ "pipelineId" \in DOMAIN call.resps[1].json
     /\ "nextTry" \notin DOMAIN call.resps[1].json
     /\ call.pc = "raised") => Polls(call) >= 1

\* C14: no request is sent twice: a call sends at most one initiate and at most
\* one retrieve, and a non-200 response is the last entry of its log, with the
\* call failed, so nothing is sent after it.
C14_NoRetry ==
    /\ Initiates(call) <= 1
    /\ Retrieves(call) <= 1
    /\ Len(call.sent) = Len(call.resps)
    /\ \A i \in DOMAIN call.resps :
          call.resps[i].status # 200 =>
              /\ i = Len(call.sent)
              /\ call.pc = "raised"
              /\ call.outcome.kind = "raise"

\* C14 witness: the second status poll was answered 500 and the call has failed
\* with one initiate, two polls and no retrieve sent
C14_Witness ==
    /\ Len(call.sent) = 3
    /\ IsStatusPoll(call.sent[3])
    /\ IsPending(call.resps[2])
    /\ call.resps[3].status = 500
    /\ Initiates(call) = 1
    /\ Retrieves(call) = 0
    /\ call.pc = "raised"

\* C15: the log of a call is the initiate, then status polls, then at most one
\* retrieve: a poll is only sent after the initiate was answered 200, the
\* retrieve only right after a poll answered RESOLVED, and the call returns
\* exactly the body of the retrieve response, after at least one poll.
C15_ProtocolOrder ==
    /\ \A i \in DOMAIN call.sent :
          /\ IsInitiate(call.sent[i]) <=> i = 1
          /\ IsStatusPoll(call.sent[i]) => (i > 1 /\ call.resps[1].status = 200)
          /\ IsRetrieve(call.sent[i]) =>
                /\ i > 2
                /\ IsStatusPoll(call.sent[i - 1])
                /\ IsResolved(call.resps[i - 1])
                /\ i = Len(call.sent)
          /\ (IsStatusPoll(call.sent[i]) /\ i > 2) => IsStatusPoll(call.sent[i - 1])
    /\ call.pc = "returned" =>
          /\ Polls(call) >= 1
          /\ IsRetrieve(call.sent[Len(call.sent)])
          /\ call.outcome = Return(call.resps[Len(call.resps)].json)

\* C15 witness: initiate, two polls (PENDING, RESOLVED) and the retrieve, whose
\* body the call returned
C15_Witness ==
    /\ call.pc = "returned"
    /\ Len(call.sent) = 4
    /\ IsPending(call.resps[2])
    /\ IsResolved(call.resps[3])
    /\ call.outcome = Return([results |-> "data"])

\* a 200 status answer that is neither RESOLVED nor FAILED
NonTerminal(r) == r.status = 200 /\ StatusOf(r) \notin {"RESOLVED", "FAILED"}

\* C16: after a 200 status answer that is neither RESOLVED nor FAILED (PENDING,
\* an unrecognized status, no status at all) the call goes on polling: it is not
\* ended, the next request is a poll, and the wait before that poll is the
\* nextTry of this very answer, or 100 when the answer has none.
C16_NonTerminalKeepsPolling ==
    \A i \in DOMAIN call.resps :
        (IsStatusPoll(call.sent[i]) /\ NonTerminal(call.resps[i])) =>
            LET wait == GetDefault(call.resps[i].json, "nextTry", 100) IN
            /\ i = Len(call.resps) =>
                  /\ call.pc \in {"sleep", "get_status"}
                  /\ call.next_try = Some(wait)
            /\ i < Len(call.resps) => IsStatusPoll(call.sent[i + 1])
            /\ Len(call.waits) >= i => call.waits[i] = wait

\* C16 witness: an answer without status and with nextTry 5 was followed by a
\* wait of 5, and a PENDING answer without nextTry by a wait of 100, although the
\* hint before it was 5
C16_Witness ==
    /\ Len(call.resps) = 3
    /\ "status" \notin DOMAIN call.resps[2].json
    /\ call.resps[2].status = 200
    /\ IsPending(call.resps[3])
    /\ Hint(call.resps[3]) = None
    /\ Len(call.waits) = 3
    /\ call.waits[2] = 5
    /\ call.waits[3] = 100
    /\ call.pc = "get_status"

\* every status poll of c so far was answered 200 and neither RESOLVED nor FAILED
AllPollsNonTerminal(c) ==
    /\ Polls(c) >= 1
    /\ \A i \in DOMAIN c.resps : IsStatusPoll(c.sent[i]) => NonTerminal(c.resps[i])

\* some status poll of c was answered RESOLVED, FAILED or non-200
SomePollTerminal(c) ==
    \E i \in DOMAIN c.resps : IsStatusPoll(c.sent[i]) /\ ~NonTerminal(c.resps[i])

\* C17: the client never gives up polling by itself: as long as every status
\* answer is a non-terminal 200 the call has not ended, however many polls it
\* has sent; once an answer is RESOLVED, FAILED or non-200 the call ends; and
\* every call either ends or keeps polling up to the bound the model follows.
C17_PollsUntilTerminalAnswer ==
    /\ [](AllPollsNonTerminal(call) => ~Ended(call))
    /\ (SomePollTerminal(call) ~> Ended(call))
    /\ <>(Ended(call) \/ (Polls(call) = MaxPolls /\ call.pc = "get_status"))

\* C17 witness: every one of MaxPolls polls was answered PENDING and the call
\* is about to poll again
C17_Witness ==
    /\ Polls(call) = MaxPolls
    /\ \A i \in 2..Len(call.resps) : IsPending(call.resps[i])
    /\ call.pc = "get_status"
    /\ Len(call.waits) = MaxPolls + 1

----------------------------------------------------------------------------
(* SpaceCar.choose_best_scene and CarVisualizer.choose_best_scene *)

\* cloud cover in hundredths: the test is cloudCover <= 0.30, absent counts as 1
CloudCoverLimit == 30
CloudCoverDefault == 100

\* longest scene list handed to choose_best_scene
MaxScenes == 3

Qualifies(scene) == GetDefault(scene, "cloudCover", CloudCoverDefault) <= CloudCoverLimit

Gsd(scene) == scene.bands[1].gsd

\* the for loop with <= for < on line 105: a tie moves best_scene on
RECURSIVE best_after_tie_last(_, _)
best_after_tie_last(seq, n) ==
    IF n = 0 THEN None
    ELSE LET best_scene == best_after_tie_last(seq, n - 1)
             scene == seq[n]
         IN IF Qualifies(scene)
            THEN IF best_scene = None THEN Some(scene)
                 ELSE IF Gsd(scene) <= Gsd(best_scene[1]) THEN Some(scene)
                 ELSE best_scene
            ELSE best_scene

\* the for loop of choose_best_scene over the first n scenes: best_scene after it
RECURSIVE best_after(_, _)
best_after(seq, n) ==
    IF n = 0 THEN None
    ELSE LET best_scene == best_after(seq, n - 1)
             scene == seq[n]
         IN IF Qualifies(scene)
            THEN IF best_scene = None THEN Some(scene)
                 ELSE IF Gsd(scene) < Gsd(best_scene[1]) THEN Some(scene)
                 ELSE best_scene
            ELSE best_scene

\* SpaceCar.choose_best_scene(scenes), scenes the list get_all_scenes returns:
\* the fallback subscripts that list with the string 'results'
choose_best_scene(seq) ==
    LET best_scene == best_after(seq, Len(seq)) IN
    IF best_scene # None THEN Return(best_scene[1])
    ELSE Raise("TypeError", <<"list indices must be integers or slices, not str">>)

\* CarVisualizer.choose_best_scene(scenes), scenes the retrieve body {'results': [...]}
cv_choose_best_scene(body) ==
    LET best_scene == best_after(body.results, Len(body.results)) IN
    IF best_scene # None THEN Return(best_scene[1])
    ELSE IF Len(body.results) = 0 THEN Raise("IndexError", <<"list index out of range">>)
    ELSE Return(body.results[1])

CloudCovers == {None, Some(10), Some(30), Some(31)}
Gsds == {1, 2}

SceneRecord(id, cc, gsd) ==
    IF cc = None
    THEN [sceneId |-> id, bands |-> <<[gsd |-> gsd]>>]
    ELSE [sceneId |-> id, cloudCover |-> cc[1], bands |-> <<[gsd |-> gsd]>>]

SceneLists ==
    UNION { { [i \in 1..n |-> SceneRecord(i, cc[i], g[i])] :
                cc \in [1..n -> CloudCovers], g \in [1..n -> Gsds] } : n \in 0..MaxScenes }

CBSInit ==
    /\ scenes \in SceneLists
    /\ chosen = Running
    /\ chosen_cv = Running
    /\ call = NewCall(SearchApi, [provider |-> "gbdx"])
    /\ calls = <<>>
    /\ tasks = <<>>
    /\ dirs = {}
    /\ files = <<>>
    /\ ps = Running

ChooseBestScene ==
    /\ chosen = Running
    /\ chosen' = choose_best_scene(scenes)
    /\ UNCHANGED <<scenes, chosen_cv, call, ps_vars>>

CVChooseBestScene ==
    /\ chosen_cv = Running
    /\ chosen_cv' = cv_choose_best_scene([results |-> scenes])
    /\ UNCHANGED <<scenes, chosen, call, ps_vars>>

CBSNext == ChooseBestScene \/ CVChooseBestScene

SpecChoose == CBSInit /\ [][CBSNext]_vars

----------------------------------------------------------------------------
(* Claims about choose_best_scene, checked under SpecChoose *)

\* positions of the scenes with cloudCover <= 0.30, absent cloudCover counting as 1.0
Qualifying(seq) ==
    { i \in DOMAIN seq :
        IF "cloudCover" \in DOMAIN seq[i] THEN seq[i].cloudCover <= 30 ELSE FALSE }

\* the first position among the qualifying scenes of minimal bands[0].gsd
Expected(seq) ==
    CHOOSE i \in Qualifying(seq) :
        \A j \in Qualifying(seq) :
            \/ seq[i].bands[1].gsd < seq[j].bands[1].gsd
            \/ seq[i].bands[1].gsd = seq[j].bands[1].gsd /\ i <= j

\* C4: when some scene qualifies, both versions of choose_best_scene return the
\* qualifying scene of minimal gsd, the earliest one among equals.
C4_BestQualifyingScene ==
    Qualifying(scenes) # {} =>
        /\ chosen.kind # "running" =>
              chosen.kind = "return" /\ chosen.value = scenes[Expected(scenes)]
        /\ chosen_cv.kind # "running" =>
              chosen_cv.kind = "return" /\ chosen_cv.value = scenes[Expected(scenes)]

\* C4 witness: a scene that does not qualify, then two qualifying scenes of the
\* same gsd; the earlier of the two was returned
C4_Witness ==
    /\ Len(scenes) = 3
    /\ Qualifying(scenes) = {2, 3}
    /\ scenes[1].bands[1].gsd < scenes[2].bands[1].gsd
    /\ scenes[2].bands[1].gsd = scenes[3].bands[1].gsd
    /\ chosen.kind = "return"
    /\ chosen.value.sceneId = 2
    /\ chosen_cv.kind = "return"
    /\ chosen_cv.value.sceneId = 2

\* C5 (as claimed): on a non-empty list without a qualifying scene
\* SpaceCar.choose_best_scene returns the first scene of the list.
C5_FallbackFirstScene ==
    (Len(scenes) >= 1 /\ Qualifying(scenes) = {} /\ chosen.kind # "running") =>
        chosen.kind = "return" /\ chosen.value = scenes[1]

\* C6 (as claimed): on the empty list SpaceCar.choose_best_scene raises
\* EmptyInputError.
C6_EmptyInputError ==
    (Len(scenes) = 0 /\ chosen.kind # "running") =>
        chosen.kind = "raise" /\ chosen.exc = "EmptyInputError"

----------------------------------------------------------------------------
(* SpaceCar: get_scene_maps, get_scene_images, save_scene_images,          *)
(* process_scene, process_scenes                                           *)

ImageryApi == "https://spaceknow-kraken.appspot.com/kraken/release/imagery/geojson"
CarsApi == "https://spaceknow-kraken.appspot.com/kraken/release/cars/geojson"

Layers == {"imagery", "cars"}
ApiOf(layer) == IF layer = "imagery" THEN ImageryApi ELSE CarsApi

\* number of scenes handed to process_scenes
NumScenes == 2

\* longest tile list of a map descriptor
MaxTiles == 2

\* PENDING answers the status endpoint gives one pipeline at most
MaxPending == 0

Extent == "extent"

get_release_payload(geojson, scene_id) == [sceneId |-> scene_id, extent |-> geojson]

\* str.replace(' ', '_') on a string given as its sequence of characters
replace_spaces(str) == [i \in DOMAIN str |-> IF str[i] = " " THEN "_" ELSE str[i]]

output_folder == <<"output">>

\* a folder name that leaves the scene out
scene_folder_shared(scene) == <<"output", <<"s", "c", "e", "n", "e">>>>

\* f'{output_folder}/{scene_name}'
scene_folder(scene) == <<"output", replace_spaces(scene.datetime)>>

\* the name f'{tile[2]}-{tile[0]}', y and zoom
image_name_y_zoom(tile) == <<tile[3], "-", tile[1]>>

\* f'{tile[1]}-{tile[2]}' of the tile (zoom, x, y): Python indexes from 0
image_name(tile) == <<tile[2], "-", tile[3]>>

\* f"{output_folder}/{scene_name}/{image_name}.png" and ....json
png_path(scene, name) == <<scene_folder(scene), name, ".png">>
json_path(scene, name) == <<scene_folder(scene), name, ".json">>

\* the GET of _get_file: the session is created without headers
get_file_request(map_id, tile_coordinates, file_type) ==
    [method |-> "GET",
     address |-> <<"https://spaceknow-kraken.appspot.com/kraken/grid", map_id, "-",
                   tile_coordinates[1], tile_coordinates[2], tile_coordinates[3], file_type>>,
     headers |-> <<>>]

\* background_image.paste(foreground_image, (0, 0), foreground_image), saved as PNG
merge(background, foreground) ==
    [kind |-> "png", background |-> background, foreground |-> foreground]

\* the sidecar file: opened for writing (empty), then json.dump(dict(cars_count=...))
EmptyJson == [kind |-> "json", data |-> None]
SidecarJson(cars_count) == [kind |-> "json", data |-> Some([cars_count |-> cars_count])]

\* json.loads of the bytes of a detections document
json_loads(bytes) == bytes.doc

NewTask ==
    [pc |-> "get_scene_maps",
     imagery_map |-> None,
     cars_map |-> None,
     tile |-> 1,              \* position of the for loop of get_scene_images
     file |-> 1,              \* next _get_file of that tile: 1, 2, 3
     background |-> None,
     foreground |-> None,
     image_components |-> <<>>,
     gets |-> <<>>,           \* GET requests sent, in order
     statuses |-> <<>>,       \* resp.status of the answers to gets, in order
     save_pc |-> "none",      \* position of save_scene_images in its worker thread
     save_i |-> 1,            \* position of the for loop of save_scene_images
     outcome |-> Running]

----------------------------------------------------------------------------
(* The remote service as process_scenes sees it *)

T1 == <<16, 100, 200>>
T2 == <<17, 100, 200>>
T3 == <<16, 101, 200>>
AllTiles == <<T1, T2, T3>>

\* the tile lists of the imagery map descriptors: no tile, or MaxTiles
\* consecutive tiles of the grid
Min(a, b) == IF a < b THEN a ELSE b

TileLists ==
    { <<>> } \cup { SubSeq(AllTiles, a, Min(a + MaxTiles - 1, Len(AllTiles))) :
                       a \in 1..(IF MaxTiles < Len(AllTiles) THEN Len(AllTiles) - MaxTiles + 1 ELSE 1) }

\* the tile list of the cars map descriptors, which get_scene_images never reads
CarsTiles == <<T3, T1>>

PipelineIdOf(layer, scene_id) == <<"pipeline", layer, scene_id>>
MapIdOf(layer, scene_id) == <<"map", layer, scene_id>>

LayerOfApi(api) == IF api = ImageryApi THEN "imagery" ELSE "cars"

\* initiate: the service names the pipeline after the release it was asked for
ReleaseInitiateResponses(c) ==
    { [status |-> 200,
       json |-> [pipelineId |-> PipelineIdOf(LayerOfApi(c.api_address), c.initiate_payload.sceneId),
                 nextTry |-> 2]],
      [status |-> 500, json |-> [error |-> "INTERNAL-ERROR", errorMessage |-> "boom"]] }

Pendings(c) == Count(c.resps, LAMBDA r : r.status = 200 /\ GetDefault(r.json, "status", "") = "PENDING")

ReleaseStatusResponses(c) ==
    { [status |-> 200, json |-> [status |-> "RESOLVED"]],
      [status |-> 200, json |-> [status |-> "FAILED"]] }
    \cup IF Pendings(c) < MaxPending
         THEN { [status |-> 200, json |-> [status |-> "PENDING", nextTry |-> 5]] }
         ELSE {}

\* retrieve: the map descriptor of the pipeline whose id the request carries
ReleaseRetrieveResponses(c) ==
    { [status |-> 200,
       json |-> [mapId |-> MapIdOf(c.pipeline_id[1][2], c.pipeline_id[1][3]),
                 tiles |-> tiles]] :
        tiles \in IF c.pipeline_id[1][2] = "imagery" THEN TileLists ELSE {CarsTiles} }

\* the bytes the grid serves at an address; a detections document lists the
\* detected cars under 'features', and the service leaves the key out for T3
FeatureCount(map_id, tile) == 2 * (map_id[3] - 1) + (IF tile = T1 THEN 1 ELSE 2)

Served(map_id, tile, file_type) ==
    IF file_type # "detections.geojson"
    THEN [map_id |-> map_id, tile |-> tile, file_type |-> file_type]
    ELSE [map_id |-> map_id, tile |-> tile, file_type |-> file_type,
          doc |-> IF tile = T3
                  THEN [type |-> "FeatureCollection"]
                  ELSE [type |-> "FeatureCollection",
                        features |-> [i \in 1..FeatureCount(map_id, tile) |-> "car"]]]

Datetimes == { <<"d", " ", "1">>, <<"d", "_", "1">>, <<"d", " ", "2">> }

ProcessLists ==
    { [i \in 1..NumScenes |-> [sceneId |-> i, datetime |-> d[i]]] :
        d \in [1..NumScenes -> Datetimes] }

----------------------------------------------------------------------------
(* Spec: process_scenes(geojson, scenes) *)

Init ==
    /\ scenes \in ProcessLists
    /\ calls = [s \in 1..NumScenes |->
                 [l \in Layers |-> NewCall(ApiOf(l), get_release_payload(Extent, scenes[s].sceneId))]]
    /\ tasks = [s \in 1..NumScenes |-> NewTask]
    /\ dirs = {}
    /\ files = <<>>
    /\ ps = Running
    /\ call = NewCall(SearchApi, [provider |-> "gbdx"])
    /\ chosen = Running
    /\ chosen_cv = Running

\* asyncio.gather of process_scenes: the first task to raise sets its outcome
gather_raise(p, outcome) == IF p.kind = "running" THEN outcome ELSE p

\* asyncio.gather of process_scenes: returns once every task has returned
gather_done(p, ts) ==
    IF p.kind = "running" /\ \A s \in DOMAIN ts : ts[s].pc = "done" THEN Return(None) ELSE p

\* process_scene raises: the task ends and process_scenes sees it
task_raise(s, outcome) ==
    /\ tasks' = [tasks EXCEPT ![s].pc = "raised", ![s].outcome = outcome]
    /\ ps' = gather_raise(ps, outcome)

\* save_scene_images called on the event loop itself: no coroutine runs
\* until it returns
loop_blocked_by_save == \E s \in DOMAIN tasks : tasks[s].pc = "save"

\* loop.run_in_executor(io_pool_exc, ...): save_scene_images runs in a thread
\* of the pool and the event loop is never held by it
loop_blocked == FALSE

\* a gather that cancels the tasks still running once one has raised
cancelled_after_failure(s) == ps.kind = "raise" /\ tasks[s].pc # "raised"

\* asyncio.gather(*tasks) without return_exceptions: the first exception goes
\* to the awaiter and the other tasks are left running, none is cancelled
cancelled(s) == FALSE

\* the coroutine of scene s can be resumed by the event loop
resumable(s) == ~loop_blocked /\ ~cancelled(s)

\* run_in_executor(io_pool_exc, save_scene_images, image_components, scene)
submit_save(t) == [t EXCEPT !.pc = "save", !.save_pc = "chk_out", !.save_i = 1]

\* a loop over the tiles of the cars map
loop_tiles_cars(imagery_map, cars_map) == cars_map.tiles

\* for tile in imagery_map['tiles']
loop_tiles(imagery_map, cars_map) == imagery_map.tiles

\* get_scene_maps returned both maps: get_scene_images starts its loop
start_images(t, imagery_map, cars_map) ==
    LET t1 == [t EXCEPT !.imagery_map = Some(imagery_map), !.cars_map = Some(cars_map),
                        !.tile = 1, !.file = 1]
    IN IF Len(loop_tiles(imagery_map, cars_map)) = 0 THEN submit_save(t1)
       ELSE [t1 EXCEPT !.pc = "get_scene_images"]

\* a gather that swallows the exception of a call
call_step_swallow(s, l, c2) ==
    LET calls2 == [calls EXCEPT ![s][l] = c2]
        t == tasks[s]
    IN /\ calls' = calls2
       /\ IF t.pc = "get_scene_maps" /\ \A k \in Layers : calls2[s][k].pc = "returned"
          THEN /\ tasks' = [tasks EXCEPT ![s] =
                               start_images(t, calls2[s]["imagery"].outcome.value,
                                               calls2[s]["cars"].outcome.value)]
               /\ UNCHANGED ps
          ELSE UNCHANGED <<tasks, ps>>
       /\ UNCHANGED <<dirs, files, scenes, call, cbs_vars>>

\* a step of one of the two get_data calls of get_scene_maps, and what
\* asyncio.gather makes of it
call_step(s, l, c2) ==
    LET calls2 == [calls EXCEPT ![s][l] = c2]
        t == tasks[s]
    IN /\ calls' = calls2
       /\ IF t.pc = "get_scene_maps" /\ c2.pc = "raised"
          THEN task_raise(s, c2.outcome)
          ELSE IF t.pc = "get_scene_maps" /\ \A k \in Layers : calls2[s][k].pc = "returned"
          THEN /\ tasks' = [tasks EXCEPT ![s] =
                               start_images(t, calls2[s]["imagery"].outcome.value,
                                               calls2[s]["cars"].outcome.value)]
               /\ UNCHANGED ps
          ELSE UNCHANGED <<tasks, ps>>
       /\ UNCHANGED <<dirs, files, scenes, call, cbs_vars>>

\* a pipeline id kept on the ApiEngine instance, which all scenes share per
\* layer: a call reads the id its instance was handed by the scene that comes
\* last in the list among those whose initiate has been answered
frame_instance_pipeline_id(s, l) ==
    LET known == { s2 \in DOMAIN calls : calls[s2][l].pipeline_id # None } IN
    IF known = {} THEN calls[s][l]
    ELSE LET last == CHOOSE s2 \in known : \A s3 \in known : s3 <= s2
         IN [calls[s][l] EXCEPT !.pipeline_id = calls[last][l].pipeline_id]

\* the local variables of the get_data call of scene s on the API of layer l:
\* next_try and pipeline_id of line 59 belong to the call, not to the instance
frame(s, l) == calls[s][l]

ReleaseInitiate(s, l) ==
    /\ calls[s][l].pc = "initiate"
    /\ resumable(s)
    /\ \E resp \in ReleaseInitiateResponses(calls[s][l]) :
          call_step(s, l, get_data_initiate(calls[s][l], resp))

ReleaseSleep(s, l) ==
    /\ calls[s][l].pc = "sleep"
    /\ resumable(s)
    /\ call_step(s, l, get_data_sleep(calls[s][l]))

ReleaseGetStatus(s, l) ==
    /\ calls[s][l].pc = "get_status"
    /\ resumable(s)
    /\ \E resp \in ReleaseStatusResponses(frame(s, l)) :
          call_step(s, l, get_data_get_status(frame(s, l), resp))

ReleaseRetrieve(s, l) ==
    /\ calls[s][l].pc = "retrieve"
    /\ resumable(s)
    /\ \E resp \in ReleaseRetrieveResponses(frame(s, l)) :
          call_step(s, l, get_data_retrieve(frame(s, l), resp))

\* the tile, map id and file type of the next _get_file of get_scene_images
next_tile(t) == loop_tiles(t.imagery_map[1], t.cars_map[1])[t.tile]
next_map_id(t) == IF t.file = 1 THEN t.imagery_map[1].mapId ELSE t.cars_map[1].mapId
next_file_type(t) ==
    IF t.file = 1 THEN "truecolor.png"
    ELSE IF t.file = 2 THEN "cars.png" ELSE "detections.geojson"

\* _get_file, lines 71-74: the GET is sent and answered 200 (ok) or not
get_file_sent(t, ok) ==
    [t EXCEPT !.gets = Append(@, get_file_request(next_map_id(t), next_tile(t),
                                                  next_file_type(t))),
              !.statuses = Append(@, IF ok THEN 200 ELSE 404)]

\* _get_file, line 78, and what get_scene_images does with the bytes: t is the
\* task before the GET, t1 the task with the GET logged
get_file_read(t, t1) ==
    LET bytes == Served(next_map_id(t), next_tile(t), next_file_type(t)) IN
    IF t.file = 1 THEN [t1 EXCEPT !.background = Some(bytes), !.file = 2]
    ELSE IF t.file = 2 THEN [t1 EXCEPT !.foreground = Some(bytes), !.file = 3]
    ELSE LET t2 == [t1 EXCEPT !.image_components =
                                  Append(@, <<t.background[1], t.foreground[1], bytes,
                                              image_name(next_tile(t))>>),
                              !.background = None, !.foreground = None,
                              !.tile = @ + 1, !.file = 1]
         IN IF t2.tile > Len(loop_tiles(t.imagery_map[1], t.cars_map[1]))
            THEN submit_save(t2) ELSE t2

\* a _get_file that reads the body whatever resp.status is
get_scene_images_step_any_status(t, ok) == get_file_read(t, get_file_sent(t, ok))

\* the next _get_file of get_scene_images, answered 200 (ok) or not
get_scene_images_step(t, ok) ==
    IF ~ok
    THEN [get_file_sent(t, ok) EXCEPT
              !.pc = "raised",
              !.outcome = Raise("Exception", <<Some("NOT-FOUND"), Some("no tile")>>)]
    ELSE get_file_read(t, get_file_sent(t, ok))

GetFile(s) ==
    /\ tasks[s].pc = "get_scene_images"
    /\ resumable(s)
    /\ \E ok \in BOOLEAN :
          LET t2 == get_scene_images_step(tasks[s], ok) IN
          IF t2.pc = "raised"
          THEN /\ tasks' = [tasks EXCEPT ![s] = t2]
               /\ ps' = gather_raise(ps, t2.outcome)
          ELSE /\ tasks' = [tasks EXCEPT ![s] = t2]
               /\ UNCHANGED ps
    /\ UNCHANGED <<calls, dirs, files, scenes, call, cbs_vars>>

\* save_scene_images returned: the task of scene s is done
save_return(s, t) ==
    LET ts == [tasks EXCEPT ![s] = [t EXCEPT !.pc = "done", !.save_pc = "none",
                                             !.outcome = Return(None)]]
    IN /\ tasks' = ts
       /\ ps' = gather_done(ps, ts)

save_raise(s, t, outcome) ==
    /\ tasks' = [tasks EXCEPT ![s] = [t EXCEPT !.pc = "raised", !.save_pc = "none",
                                               !.outcome = outcome]]
    /\ ps' = gather_raise(ps, outcome)

\* save_scene_images, lines 160-163: os.path.exists and os.makedirs are
\* separate system calls of the worker thread
SaveMakedirs(s) ==
    LET t == tasks[s]
        folder == IF t.save_pc \in {"chk_out", "mk_out"} THEN output_folder
                  ELSE scene_folder(scenes[s])
        after == IF t.save_pc \in {"chk_out", "mk_out"} THEN "chk_dir" ELSE "png"
        go(pc2) == IF pc2 = "png" /\ Len(t.image_components) = 0
                   THEN save_return(s, t)
                   ELSE /\ tasks' = [tasks EXCEPT ![s].save_pc = pc2]
                        /\ UNCHANGED ps
    IN /\ t.pc = "save"
       /\ t.save_pc \in {"chk_out", "mk_out", "chk_dir", "mk_dir"}
       /\ IF t.save_pc \in {"chk_out", "chk_dir"}
          THEN /\ IF folder \in dirs THEN go(after)
                  ELSE go(IF t.save_pc = "chk_out" THEN "mk_out" ELSE "mk_dir")
               /\ UNCHANGED dirs
          ELSE IF folder \in dirs
               THEN /\ save_raise(s, t, Raise("FileExistsError", <<folder>>))
                    /\ UNCHANGED dirs
               ELSE /\ dirs' = dirs \cup {folder}
                    /\ go(after)
       /\ UNCHANGED <<calls, files, scenes, call, cbs_vars>>

\* save_scene_images, lines 166-169: the merged image of the current tile
SavePng(s) ==
    LET t == tasks[s]
        comp == t.image_components[t.save_i]
    IN /\ t.pc = "save"
       /\ t.save_pc = "png"
       /\ files' = (png_path(scenes[s], comp[4]) :> merge(comp[1], comp[2])) @@ files
       /\ tasks' = [tasks EXCEPT ![s].save_pc = "json"]
       /\ UNCHANGED <<calls, dirs, ps, scenes, call, cbs_vars>>

\* len(json.loads(detections_info)): the keys of the document are counted
cars_count_of_keys(detections_info) ==
    Return(Cardinality(DOMAIN json_loads(detections_info)))

\* len(json.loads(detections_info)['features']): KeyError without the key
cars_count_of(detections_info) ==
    LET doc == json_loads(detections_info) IN
    IF "features" \in DOMAIN doc THEN Return(Len(doc.features))
    ELSE Raise("KeyError", <<"features">>)

\* save_scene_images, lines 170-173: the sidecar of the current tile
SaveJson(s) ==
    LET t == tasks[s]
        comp == t.image_components[t.save_i]
        cars_count == cars_count_of(comp[3])
        path == json_path(scenes[s], comp[4])
    IN /\ t.pc = "save"
       /\ t.save_pc = "json"
       /\ IF cars_count.kind = "raise"
          THEN /\ files' = (path :> EmptyJson) @@ files
               /\ save_raise(s, t, cars_count)
          ELSE /\ files' = (path :> SidecarJson(cars_count.value)) @@ files
               /\ IF t.save_i = Len(t.image_components)
                  THEN save_return(s, t)
                  ELSE /\ tasks' = [tasks EXCEPT ![s].save_i = @ + 1, ![s].save_pc = "png"]
                       /\ UNCHANGED ps
       /\ UNCHANGED <<calls, dirs, scenes, call, cbs_vars>>

Next ==
    \E s \in 1..NumScenes :
        \/ \E l \in Layers : ReleaseInitiate(s, l)
        \/ \E l \in Layers : ReleaseSleep(s, l)
        \/ \E l \in Layers : ReleaseGetStatus(s, l)
        \/ \E l \in Layers : ReleaseRetrieve(s, l)
        \/ GetFile(s)
        \/ SaveMakedirs(s)
        \/ SavePng(s)
        \/ SaveJson(s)

Spec == Init /\ [][Next]_vars

----------------------------------------------------------------------------
(* Claims about process_scene and process_scenes, checked under Spec *)

SceneIds == 1..NumScenes

\* C7: no tile fetch of a scene is sent, and neither get_scene_images nor
\* save_scene_images runs, unless both release calls of the scene have returned,
\* the maps used being their results; and once either release call has raised,
\* process_scene has raised with the error of a failed call and has fetched and
\* saved nothing.
C7_BothReleasesBeforeTiles ==
    \A s \in SceneIds :
        /\ (tasks[s].gets # <<>> \/ tasks[s].pc \in {"get_scene_images", "save", "done"}) =>
              /\ \A l \in Layers : calls[s][l].pc = "returned"
              /\ tasks[s].imagery_map = Some(calls[s]["imagery"].outcome.value)
              /\ tasks[s].cars_map = Some(calls[s]["cars"].outcome.value)
        /\ (\E l \in Layers : calls[s][l].pc = "raised") =>
              /\ tasks[s].pc = "raised"
              /\ \E l \in Layers : /\ calls[s][l].pc = "raised"
                                   /\ tasks[s].outcome = calls[s][l].outcome
              /\ tasks[s].gets = <<>>
              /\ tasks[s].image_components = <<>>
              /\ tasks[s].save_pc = "none"

\* C7 witness: scene 1 fetches tiles after both releases returned; in scene 2
\* the cars release has failed while the imagery release, started before, is
\* still waiting, and process_scene of scene 2 has raised
C7_Witness ==
    /\ tasks[1].gets # <<>>
    /\ calls[2]["cars"].pc = "raised"
    /\ calls[2]["imagery"].pc = "get_status"
    /\ Len(calls[2]["imagery"].sent) = 1
    /\ tasks[2].pc = "raised"

AllDone == \A s \in SceneIds : tasks[s].pc = "done"

FilesIn(folder) == { p \in DOMAIN files : p[1] = folder }

\* the file at path was built from a tile image set of scene s, fetched with
\* the map ids of the scene's own releases
BuiltFromScene(s, p) ==
    \E i \in DOMAIN tasks[s].image_components :
        LET comp == tasks[s].image_components[i]
            own_imagery == calls[s]["imagery"].outcome.value.mapId
            own_cars == calls[s]["cars"].outcome.value.mapId
        IN /\ comp[1].map_id = own_imagery
           /\ comp[2].map_id = own_cars
           /\ comp[3].map_id = own_cars
           /\ p[2] = comp[4]
           /\ \/ /\ p[3] = ".png"
                 /\ files[p].kind = "png"
                 /\ files[p].background = comp[1]
                 /\ files[p].foreground = comp[2]
              \/ /\ p[3] = ".json"
                 /\ files[p].kind = "json"
                 /\ \/ files[p].data = None
                    \/ /\ "features" \in DOMAIN comp[3].doc
                       /\ files[p].data = Some([cars_count |-> Len(comp[3].doc.features)])

SceneFolders == { scene_folder(scenes[s]) : s \in SceneIds }

\* the datetime strings of the scenes differ pairwise once spaces are underscores
DistinctSceneNames ==
    \A s, t \in SceneIds :
        s # t => replace_spaces(scenes[s].datetime) # replace_spaces(scenes[t].datetime)

\* C8 (as claimed): when every scene has succeeded there are N distinct output
\* directories, and every file of a scene's directory was built from that
\* scene's own tiles.
C8_IndependentDirectories ==
    AllDone =>
        /\ Cardinality(SceneFolders) = NumScenes
        /\ SceneFolders \subseteq dirs
        /\ \A s \in SceneIds : \A p \in FilesIn(scene_folder(scenes[s])) : BuiltFromScene(s, p)

\* C8 (amended): for scenes whose sanitized datetime strings differ pairwise,
\* at every moment every file of a scene's directory was built from that scene's
\* own tiles, and when every scene has succeeded the N directories exist and
\* are distinct.
C8_DistinctNamesIndependent ==
    DistinctSceneNames =>
        /\ \A s \in SceneIds : \A p \in FilesIn(scene_folder(scenes[s])) : BuiltFromScene(s, p)
        /\ AllDone => /\ Cardinality(SceneFolders) = NumScenes
                      /\ SceneFolders \subseteq dirs

\* C8 witness: two scenes of different names have both succeeded and each has
\* files in its directory
C8_Witness ==
    /\ DistinctSceneNames
    /\ AllDone
    /\ \A s \in SceneIds : FilesIn(scene_folder(scenes[s])) # {}

\* C10: the step of save_scene_images that writes the sidecar of a tile leaves
\* at the tile's name {"cars_count": N}, N the number of features of the
\* detections document the grid serves for that tile under the scene's cars map.
C10_SidecarCountsOwnTile ==
    [][\A s \in SceneIds :
          LET t == tasks[s] IN
          (t.pc = "save" /\ t.save_pc = "json" /\ tasks'[s] # t) =>
              LET tile == t.imagery_map[1].tiles[t.save_i]
                  doc == Served(calls[s]["cars"].outcome.value.mapId, tile,
                                "detections.geojson").doc
                  p == json_path(scenes[s], image_name(tile))
              IN "features" \in DOMAIN doc =>
                    /\ p \in DOMAIN files'
                    /\ files'[p] = SidecarJson(Len(doc.features))
                    /\ png_path(scenes[s], image_name(tile)) \in DOMAIN files'
      ]_vars

\* C10 witness: scene 1 has saved T1 (one car) and then T2 (two cars); the
\* sidecar of T2 holds cars_count 2
C10_Witness ==
    /\ tasks[1].pc = "done"
    /\ tasks[1].imagery_map = Some([mapId |-> MapIdOf("imagery", 1), tiles |-> <<T1, T2>>])
    /\ json_path(scenes[1], image_name(T2)) \in DOMAIN files
    /\ files[json_path(scenes[1], image_name(T2))] = SidecarJson(2)

----------------------------------------------------------------------------
(* Claims about file names and requests of a scene, checked under Spec *)

\* the tiles of the imagery map of scene s, once get_scene_maps has returned
TilesOf(s) == tasks[s].imagery_map[1].tiles

\* the directory of scene s: the output folder, then the datetime with
\* underscores for spaces
FolderOf(s) ==
    <<"output", [i \in DOMAIN scenes[s].datetime |->
                    IF scenes[s].datetime[i] = " " THEN "_" ELSE scenes[s].datetime[i]]>>

Authorized(q) ==
    /\ "Authorization" \in DOMAIN q.headers
    /\ q.headers.Authorization = <<"Bearer", JWT_TOKEN>>

\* C12: every HTTP request a run sends, the pipeline POSTs of both APIs and
\* every tile GET, carries the bearer token in its Authorization header.
C12_EveryRequestAuthorized ==
    \A s \in SceneIds :
        /\ \A l \in Layers : \A i \in DOMAIN calls[s][l].sent : Authorized(calls[s][l].sent[i])
        /\ \A i \in DOMAIN tasks[s].gets : Authorized(tasks[s].gets[i])

\* the address of the grid file file_type of tile under map_id
GridAddress(map_id, tile, file_type) ==
    <<"https://spaceknow-kraken.appspot.com/kraken/grid", map_id, "-",
      tile[1], tile[2], tile[3], file_type>>

\* the three file types of a tile in the order claimed
FileTypes == <<"truecolor.png", "cars.png", "detections.geojson">>

\* C18: the fetches of a scene follow imagery_map.tiles, whatever cars_map.tiles
\* is: fetch 3(i-1)+1 is truecolor.png of tile i under the imagery map id,
\* fetches 3(i-1)+2 and 3(i-1)+3 are cars.png and detections.geojson of the same
\* tile under the cars map id, so all fetches of tile i come before those of
\* tile i+1; image set i holds the bytes of these three fetches; and what
\* get_scene_images returns has exactly one image set per imagery tile.
C18_FetchesFollowImageryTiles ==
    \A s \in SceneIds :
        LET t == tasks[s] IN
        t.imagery_map # None =>
            LET imagery_id == t.imagery_map[1].mapId
                cars_id == t.cars_map[1].mapId
                tiles == t.imagery_map[1].tiles
            IN /\ \A k \in DOMAIN t.gets :
                     LET i == ((k - 1) \div 3) + 1
                         f == ((k - 1) % 3) + 1
                     IN /\ i <= Len(tiles)
                        /\ t.gets[k].method = "GET"
                        /\ t.gets[k].address =
                              GridAddress(IF f = 1 THEN imagery_id ELSE cars_id,
                                          tiles[i], FileTypes[f])
               /\ \A i \in DOMAIN t.image_components :
                     /\ t.image_components[i][1] = Served(imagery_id, tiles[i], FileTypes[1])
                     /\ t.image_components[i][2] = Served(cars_id, tiles[i], FileTypes[2])
                     /\ t.image_components[i][3] = Served(cars_id, tiles[i], FileTypes[3])
               /\ t.pc \in {"save", "done"} =>
                     /\ Len(t.image_components) = Len(tiles)
                     /\ Len(t.gets) = 3 * Len(tiles)

\* C18 witness: get_scene_images of scene 1 has returned two image sets for
\* imagery tiles that are not the tiles of the cars map
C18_Witness ==
    /\ tasks[1].pc = "save"
    /\ TilesOf(1) = <<T1, T2>>
    /\ tasks[1].cars_map[1].tiles # TilesOf(1)
    /\ Len(tasks[1].gets) = 6
    /\ Len(tasks[1].image_components) = 2

\* C19: a tile fetch answered non-200 is the last fetch of its scene: the task
\* has raised, save_scene_images was never started for it, and no merged image
\* built from the scene's imagery map is on the drive.
C19_FailedFetchWritesNothing ==
    \A s \in SceneIds :
        LET t == tasks[s] IN
        \A k \in DOMAIN t.statuses :
            t.statuses[k] # 200 =>
                /\ k = Len(t.statuses)
                /\ Len(t.gets) = k
                /\ t.pc = "raised"
                /\ t.outcome.kind = "raise"
                /\ t.save_pc = "none"
                /\ t.save_i = 1
                /\ Len(t.image_components) < Len(TilesOf(s))
                /\ \A p \in DOMAIN files :
                      files[p].kind = "png" =>
                          files[p].background.map_id # t.imagery_map[1].mapId

\* C19 witness: scene 1 had fetched its first tile completely when the fourth
\* fetch was answered non-200, and scene 2 has saved its images
C19_Witness ==
    /\ Len(tasks[1].statuses) = 4
    /\ tasks[1].statuses[4] # 200
    /\ Len(tasks[1].image_components) = 1
    /\ tasks[1].pc = "raised"
    /\ tasks[2].pc = "done"
    /\ Len(tasks[2].image_components) = 2

\* the next network step of scene s2, if it has one pending, can be taken
NetworkStepsEnabled(s2) ==
    /\ \A l \in Layers :
          /\ calls[s2][l].pc = "initiate" => ENABLED ReleaseInitiate(s2, l)
          /\ calls[s2][l].pc = "sleep" => ENABLED ReleaseSleep(s2, l)
          /\ calls[s2][l].pc = "get_status" => ENABLED ReleaseGetStatus(s2, l)
          /\ calls[s2][l].pc = "retrieve" => ENABLED ReleaseRetrieve(s2, l)
    /\ tasks[s2].pc = "get_scene_images" => ENABLED GetFile(s2)

\* the next step of the save of scene s can be taken
SaveStepEnabled(s) ==
    ENABLED (SaveMakedirs(s) \/ SavePng(s) \/ SaveJson(s))

StillRunning(s) == tasks[s].pc \in {"get_scene_maps", "get_scene_images", "save"}

\* some step of the task of scene s can be taken
TaskStepEnabled(s) ==
    \/ \E l \in Layers :
          \/ ENABLED ReleaseInitiate(s, l)
          \/ ENABLED ReleaseSleep(s, l)
          \/ ENABLED ReleaseGetStatus(s, l)
          \/ ENABLED ReleaseRetrieve(s, l)
    \/ ENABLED GetFile(s)
    \/ SaveStepEnabled(s)

\* the task of scene s raises in this step
Fails(s) == tasks[s].pc # "raised" /\ tasks'[s].pc = "raised"

----------------------------------------------------------------------------
(* Claims about concurrent get_data calls and the files of a scene *)

\* the pipelineId that the initiate response of call c returned
OwnPipelineId(c) == Get(c.resps[1].json, "pipelineId")

\* C21: under every interleaving of the release calls of all scenes, each call
\* sends its initiate and its retrieve to its own base address and its polls to
\* the one shared status address, carries in every poll and in the retrieve the
\* pipelineId of its own initiate response and no other call's, and returns
\* the body of its own retrieve response, the map of its own scene and layer.
C21_PipelineIsolation ==
    \A s \in SceneIds : \A l \in Layers :
        LET c == calls[s][l] IN
        /\ \A i \in DOMAIN c.sent :
              LET q == c.sent[i] IN
              /\ IsInitiate(q) => q.address[1] = ApiOf(l)
              /\ IsStatusPoll(q) =>
                    /\ q.address = <<"https://spaceknow-tasking.appspot.com/tasking/get-status">>
                    /\ q.json.pipelineId = OwnPipelineId(c)
              /\ IsRetrieve(q) =>
                    /\ q.address[1] = ApiOf(l)
                    /\ q.json.pipelineId = OwnPipelineId(c)
              /\ (IsStatusPoll(q) \/ IsRetrieve(q)) =>
                    \A s2 \in SceneIds : \A l2 \in Layers :
                        (<<s2, l2>> # <<s, l>> /\ Len(calls[s2][l2].resps) >= 1
                            /\ calls[s2][l2].resps[1].status = 200) =>
                                q.json.pipelineId # OwnPipelineId(calls[s2][l2])
        /\ c.pc = "returned" =>
              /\ c.outcome = Return(c.resps[Len(c.resps)].json)
              /\ c.outcome.value.mapId = <<"map", l, scenes[s].sceneId>>

\* C21 witness: all four release calls have polled the shared status address
\* once; the imagery call of scene 1 and the cars call of scene 2 have returned,
\* and the two other calls are between their poll and their retrieve
C21_Witness ==
    /\ calls[1]["imagery"].pc = "returned"
    /\ calls[2]["cars"].pc = "returned"
    /\ calls[1]["cars"].pc = "retrieve"
    /\ calls[2]["imagery"].pc = "retrieve"
    /\ \A s \in SceneIds : \A l \in Layers : Polls(calls[s][l]) = 1

\* the merged images and the sidecars in the directory of scene s
PngsOf(s) == { p \in DOMAIN files : p[1] = FolderOf(s) /\ p[3] = ".png" }
JsonsOf(s) == { p \in DOMAIN files : p[1] = FolderOf(s) /\ p[3] = ".json" }

\* the tiles of scene s are pairwise distinct
DistinctTiles(s) ==
    \A i, j \in DOMAIN TilesOf(s) : i # j => TilesOf(s)[i] # TilesOf(s)[j]

\* no other scene writes into the directory of scene s
OwnDirectory(s) == \A s2 \in SceneIds \ {s} : FolderOf(s2) # FolderOf(s)

\* C22 (as claimed): once process_scene has completed for a scene with n
\* pairwise distinct tiles, whose directory no other scene uses, the directory
\* holds exactly n merged images and exactly n sidecars.
C22_OneFilePairPerTile ==
    \A s \in SceneIds :
        (tasks[s].pc = "done" /\ DistinctTiles(s) /\ OwnDirectory(s)) =>
            /\ Cardinality(PngsOf(s)) = Len(TilesOf(s))
            /\ Cardinality(JsonsOf(s)) = Len(TilesOf(s))

\* save_scene_images of scene s has ended, by returning or by raising
SaveEnded(s) ==
    \/ tasks[s].pc = "done"
    \/ /\ tasks[s].pc = "raised"
       /\ tasks[s].imagery_map # None
       /\ Len(tasks[s].image_components) = Len(TilesOf(s))
       /\ \A k \in DOMAIN tasks[s].statuses : tasks[s].statuses[k] = 200

\* C23 (as claimed): once save_scene_images of a scene has ended, normally or
\* by an error, every merged image in the scene's directory (which no other
\* scene uses) has a sidecar of the same name that holds a cars_count.
C23_EveryPngHasSidecar ==
    \A s \in SceneIds :
        (SaveEnded(s) /\ OwnDirectory(s)) =>
            \A p \in PngsOf(s) :
                /\ <<p[1], p[2], ".json">> \in DOMAIN files
                /\ files[<<p[1], p[2], ".json">>].data # None
                /\ "cars_count" \in DOMAIN files[<<p[1], p[2], ".json">>].data[1]

====
